---- MODULE Spec2Model ----
(***************************************************************************)
(* Model of the LLM-memorizer MCP server (src/main.py): the two tools      *)
(* save_memory and search_memories over the Supabase table "memories".     *)
(*                                                                         *)
(* Strings the code parses, splits or slices (the date and time filters,   *)
(* the stored timestamps) are sequences of one-character strings, so that  *)
(* strptime, str.split, slicing and isoformat are computed, not assumed.   *)
(* Opaque strings (content, messages of errors) are TLA+ strings.          *)
(*                                                                         *)
(* Each tool is an async function without any await: the event loop runs   *)
(* a call from its first line to its return, so a call is one action.      *)
(* The backend calls a handler makes are logged in `calls`, in order.      *)
(***************************************************************************)
EXTENDS Integers, Sequences, FiniteSets, TLC

VARIABLES
    table,   \* rows of the table "memories", in heap (insertion) order
    req,     \* the last tool call: its name and arguments
    calls,   \* the backend calls the last tool call made, in order, with outcome
    ret,     \* what the last tool call returned to its caller
    saved    \* history: the texts of the save_memory calls that returned success

vars == <<table, req, calls, ret, saved>>

(***************************************************************************)
(* Bounds                                                                  *)
(***************************************************************************)
\* save_memory is not called once the default user owns this many rows
MaxSaves == 2

(***************************************************************************)
(* Characters and strings                                                  *)
(***************************************************************************)
Digits == <<"0", "1", "2", "3", "4", "5", "6", "7", "8", "9">>

IsDigit(c) == \E i \in 1..10 : Digits[i] = c

DigitVal(c) == (CHOOSE i \in 1..10 : Digits[i] = c) - 1

DigitChar(d) == Digits[d + 1]

RECURSIVE NumVal(_)
\* int() of a string of decimal digits
NumVal(ds) ==
    IF Len(ds) = 0 THEN 0
    ELSE 10 * NumVal(SubSeq(ds, 1, Len(ds) - 1)) + DigitVal(ds[Len(ds)])

AllDigits(s) == \A i \in 1..Len(s) : IsDigit(s[i])

RECURSIVE Pad(_, _)
\* the format specs %02d, %04d, %06d: n in decimal, zero-padded to w digits
Pad(n, w) ==
    IF w = 0 THEN <<>>
    ELSE Pad(n \div 10, w - 1) \o <<DigitChar(n % 10)>>

Contains(s, c) == \E i \in 1..Len(s) : s[i] = c

RECURSIVE Split(_, _)
\* str.split(sep) for a one-character separator
Split(s, sep) ==
    IF ~Contains(s, sep) THEN <<s>>
    ELSE LET k == CHOOSE i \in 1..Len(s) :
                     s[i] = sep /\ \A j \in 1..(i - 1) : s[j] # sep
         IN  <<SubSeq(s, 1, k - 1)>> \o Split(SubSeq(s, k + 1, Len(s)), sep)

\* the slice s[:n]
Take(s, n) == SubSeq(s, 1, IF Len(s) < n THEN Len(s) ELSE n)

Range(s) == {s[i] : i \in DOMAIN s}

(***************************************************************************)
(* datetime.datetime.strptime, as main.py uses it only to validate         *)
(***************************************************************************)
\* %Y of strptime: the regex \d\d\d\d
MatchY(f) == Len(f) = 4 /\ AllDigits(f)

\* %m of strptime: the regex 1[0-2]|0[1-9]|[1-9]
Matchm(f) ==
    \/ Len(f) = 2 /\ f[1] = "1" /\ f[2] \in {"0", "1", "2"}
    \/ Len(f) = 2 /\ f[1] = "0" /\ IsDigit(f[2]) /\ f[2] # "0"
    \/ Len(f) = 1 /\ IsDigit(f[1]) /\ f[1] # "0"

\* %d of strptime: the regex 3[0-1]|[1-2]\d|0[1-9]|[1-9]| [1-9]
Matchd(f) ==
    \/ Len(f) = 2 /\ f[1] = "3" /\ f[2] \in {"0", "1"}
    \/ Len(f) = 2 /\ f[1] \in {"1", "2"} /\ IsDigit(f[2])
    \/ Len(f) = 2 /\ f[1] \in {"0", " "} /\ IsDigit(f[2]) /\ f[2] # "0"
    \/ Len(f) = 1 /\ IsDigit(f[1]) /\ f[1] # "0"

\* %H of strptime: the regex 2[0-3]|[0-1]\d|\d
MatchH(f) ==
    \/ Len(f) = 2 /\ f[1] = "2" /\ f[2] \in {"0", "1", "2", "3"}
    \/ Len(f) = 2 /\ f[1] \in {"0", "1"} /\ IsDigit(f[2])
    \/ Len(f) = 1 /\ IsDigit(f[1])

\* %M of strptime: the regex [0-5]\d|\d
MatchM(f) ==
    \/ Len(f) = 2 /\ f[1] \in {"0", "1", "2", "3", "4", "5"} /\ IsDigit(f[2])
    \/ Len(f) = 1 /\ IsDigit(f[1])

\* %S of strptime: the regex 6[0-1]|[0-5]\d|\d
MatchS(f) ==
    \/ Len(f) = 2 /\ f[1] = "6" /\ f[2] \in {"0", "1"}
    \/ MatchM(f)

\* the value of a %d field (a leading space is skipped by int())
DayVal(f) == IF f[1] = " " THEN NumVal(Tail(f)) ELSE NumVal(f)

IsLeap(y) == y % 4 = 0 /\ (y % 100 # 0 \/ y % 400 = 0)

DaysInMonth(y, m) ==
    IF m = 2 THEN (IF IsLeap(y) THEN 29 ELSE 28)
    ELSE IF m \in {4, 6, 9, 11} THEN 30 ELSE 31

\* datetime.datetime.strptime(date, '%Y-%m-%d') returns (does not raise
\* ValueError): the whole string matches the format's regex and the fields
\* make a date of the proleptic Gregorian calendar (year >= MINYEAR)
StrptimeYmd(date) ==
    LET p == Split(date, "-") IN
    /\ Len(p) = 3
    /\ MatchY(p[1]) /\ Matchm(p[2]) /\ Matchd(p[3])
    /\ NumVal(p[1]) >= 1
    /\ DayVal(p[3]) <= DaysInMonth(NumVal(p[1]), NumVal(p[2]))

\* datetime.datetime.strptime(time, '%H:%M:%S') returns (does not raise)
StrptimeHMS(time) ==
    LET p == Split(time, ":") IN
    /\ Len(p) = 3
    /\ MatchH(p[1]) /\ MatchM(p[2]) /\ MatchS(p[3])

(***************************************************************************)
(* datetime.datetime.now().isoformat()                                     *)
(***************************************************************************)
\* YYYY-MM-DDTHH:MM:SS, followed by .ffffff when the microsecond is not 0
IsoFormat(t) ==
    Pad(t.Y, 4) \o <<"-">> \o Pad(t.Mo, 2) \o <<"-">> \o Pad(t.D, 2) \o <<"T">>
    \o Pad(t.h, 2) \o <<":">> \o Pad(t.mi, 2) \o <<":">> \o Pad(t.s, 2)
    \o (IF t.us = 0 THEN <<>> ELSE <<".">> \o Pad(t.us, 6))

(***************************************************************************)
(* The backend's reading of a timestamp literal (PostgreSQL's timestamp    *)
(* input, which the column "timestamp" compares by): fields need not be    *)
(* zero-padded, the fraction of the seconds is optional.                   *)
(***************************************************************************)
RECURSIVE Micros(_, _)
\* a fraction of a second in microseconds: the digits, right-padded to w
Micros(ds, w) ==
    IF w = 0 THEN 0
    ELSE IF Len(ds) = 0 THEN 0
    ELSE DigitVal(ds[1]) * (10 ^ (w - 1)) + Micros(Tail(ds), w - 1)

PgTimestamp(s) ==
    LET dt  == Split(s, "T")
        d   == Split(dt[1], "-")
        t   == Split(dt[2], ":")
        sec == Split(t[3], ".")
    IN  <<NumVal(d[1]), NumVal(d[2]), NumVal(d[3]),
          NumVal(t[1]), NumVal(t[2]), NumVal(sec[1]),
          IF Len(sec) > 1 THEN Micros(sec[2], 6) ELSE 0>>

RECURSIVE TupleLeq(_, _)
\* lexicographic order of two tuples of numbers of one length
TupleLeq(a, b) ==
    IF Len(a) = 0 THEN TRUE
    ELSE IF a[1] # b[1] THEN a[1] < b[1]
    ELSE TupleLeq(Tail(a), Tail(b))

\* timestamp <= timestamp, as the backend evaluates it
TsLeq(x, y) == TupleLeq(PgTimestamp(x), PgTimestamp(y))

(***************************************************************************)
(* Arguments, clock readings and rows                                      *)
(***************************************************************************)
DEFAULT_USER_ID == 1

\* an optional str argument: None, or a string (which may be empty)
None == [given |-> FALSE, s |-> <<>>]

Str(s) == [given |-> TRUE, s |-> s]

\* Python's truth value of an optional str: None and "" are false
Truthy(a) == a.given /\ Len(a.s) > 0

\* the date arguments tried: None, "", "2024-01-01", "2024-1-1", "not-a-date"
DateInputs ==
    { None,
      Str(<<>>),
      Str(<<"2", "0", "2", "4", "-", "0", "1", "-", "0", "1">>),
      Str(<<"2", "0", "2", "4", "-", "1", "-", "1">>),
      Str(<<"n", "o", "t", "-", "a", "-", "d", "a", "t", "e">>) }

\* the time arguments tried: None, "", "14:30:59", "9:05:00", "14:30"
TimeInputs ==
    { None,
      Str(<<>>),
      Str(<<"1", "4", ":", "3", "0", ":", "5", "9">>),
      Str(<<"9", ":", "0", "5", ":", "0", "0">>),
      Str(<<"1", "4", ":", "3", "0">>) }

\* the texts save_memory is called with
Texts == {"milk", "eggs"}

\* the readings datetime.datetime.now() can give, in chronological order
Instants ==
    << [Y |-> 2023, Mo |-> 12, D |-> 31, h |-> 23, mi |-> 59, s |-> 59, us |-> 500000],
       [Y |-> 2024, Mo |-> 1,  D |-> 1,  h |-> 9,  mi |-> 5,  s |-> 7,  us |-> 0],
       [Y |-> 2024, Mo |-> 1,  D |-> 1,  h |-> 14, mi |-> 30, s |-> 0,  us |-> 250000],
       [Y |-> 2024, Mo |-> 1,  D |-> 1,  h |-> 23, mi |-> 59, s |-> 59, us |-> 500000],
       [Y |-> 2024, Mo |-> 1,  D |-> 2,  h |-> 14, mi |-> 30, s |-> 59, us |-> 0] >>

\* isoformat() of each reading
IsoInstants == [i \in DOMAIN Instants |-> IsoFormat(Instants[i])]

\* the ids uuid.uuid4() can give
UuidSpace == {901, 902}

\* a row of another user of the table, written before the server started
OtherUserRow ==
    [ id        |-> 1,
      user_id   |-> DEFAULT_USER_ID + 1,
      content   |-> "other",
      timestamp |-> IsoInstants[3],
      message   |-> <<[role |-> "user", content |-> "other"]>> ]

(***************************************************************************)
(* The backend: the table "memories" behind the Supabase client            *)
(***************************************************************************)
\* a backend call made by a handler, and whether it succeeded
Call(op, ok) == [op |-> op, ok |-> ok]

\* Eq without the restriction to the user
EqAnyUser(tbl, uid) == Range(tbl)

\* .table("memories").select("*").eq("user_id", uid): the rows it selects
Eq(tbl, uid) == {r \in Range(tbl) : r.user_id = uid}

\* .gte("timestamp", v)
Gte(rows, v) ==
    LET bound == PgTimestamp(v)
    IN  {r \in rows : TupleLeq(bound, PgTimestamp(r.timestamp))}

\* .lte("timestamp", v)
Lte(rows, v) ==
    LET bound == PgTimestamp(v)
    IN  {r \in rows : TupleLeq(PgTimestamp(r.timestamp), bound)}

\* the sequences that list every row of a set exactly once
Orderings(rows) ==
    LET n == Cardinality(rows)
    IN  {f \in [1..n -> rows] : \A i, j \in 1..n : i # j => f[i] # f[j]}

\* .execute() of a query without .order(): it raises, or responds with the
\* rows in an order the backend chooses
Execute(rows) ==
    {[ok |-> FALSE, data |-> <<>>]}
    \cup {[ok |-> TRUE, data |-> d] : d \in Orderings(rows)}

\* .order("timestamp", desc=True).execute(): it raises, or responds with the
\* rows newest first (rows of one timestamp in an order the backend chooses)
ExecuteOrderDesc(rows) ==
    LET key == [r \in rows |-> PgTimestamp(r.timestamp)]
        desc(o) == \A i \in 1..(Len(o) - 1) : TupleLeq(key[o[i + 1]], key[o[i]])
    IN  {[ok |-> FALSE, data |-> <<>>]}
        \cup {[ok |-> TRUE, data |-> d] : d \in {o \in Orderings(rows) : desc(o)}}

\* .select("id").limit(1).execute(): it raises, or responds with at most
\* one row, as the dict {"id": ...}
ExecuteSelectIdLimit1(tbl) ==
    {[ok |-> FALSE, data |-> <<>>]}
    \cup (IF Len(tbl) = 0 THEN {[ok |-> TRUE, data |-> <<>>]}
          ELSE {[ok |-> TRUE, data |-> <<[t |-> "dict", v |-> r.id]>>] : r \in Range(tbl)})

\* the id the table's default gives a row inserted without one
NextSerial(tbl) == Len(tbl) + 1

\* .upsert(memory_data).execute() when it succeeds: INSERT ... ON CONFLICT
\* (id) DO UPDATE, so a row with the id given is replaced, and the row is
\* appended otherwise (with the default id when none is given)
Upsert(tbl, d) ==
    LET row(id) == [ id |-> id, user_id |-> d.user_id, content |-> d.content,
                     timestamp |-> d.timestamp, message |-> d.message ]
    IN  IF d.has_id /\ \E i \in DOMAIN tbl : tbl[i].id = d.id
        THEN [i \in DOMAIN tbl |-> IF tbl[i].id = d.id THEN row(d.id) ELSE tbl[i]]
        ELSE Append(tbl, row(IF d.has_id THEN d.id ELSE NextSerial(tbl)))

(***************************************************************************)
(* What a handler's body ends with: a value returned, or an exception      *)
(***************************************************************************)
\* return of a str; kind tells what the str holds: "saved" (the
\* confirmation), "list" (a JSON list of rows), "error" (an error message)
Returned(kind, msg, data, stamp, log) ==
    [kind |-> kind, msg |-> msg, data |-> data, stamp |-> stamp, calls |-> log]

\* an exception of class cls leaving the code that raised it
Raised(cls, log) ==
    [kind |-> "raise", msg |-> cls, data |-> <<>>, stamp |-> <<>>, calls |-> log]

(***************************************************************************)
(* save_memory                                                             *)
(***************************************************************************)
\* Python's  x in data  for a str x and a list of dicts: a dict never
\* equals a str, so only an element that is the str itself counts
PyStrIn(x, data) == \E i \in DOMAIN data : data[i].t = "str" /\ data[i].v = x

\* MemoryData with the user's id as the row's id
MemoryDataUserKey(text, now, probe, uuid) ==
    [ user_id   |-> DEFAULT_USER_ID,
      content   |-> text,
      timestamp |-> IsoFormat(now),
      message   |-> <<[role |-> "user", content |-> text]>>,
      has_id    |-> TRUE,
      id        |-> DEFAULT_USER_ID ]

\* the dict memory_data, after the id of value None was deleted from it
MemoryData(text, now, probe, uuid) ==
    [ user_id   |-> DEFAULT_USER_ID,
      content   |-> text,
      timestamp |-> IsoFormat(now),
      message   |-> <<[role |-> "user", content |-> text]>>,
      has_id    |-> PyStrIn("id", probe),
      id        |-> IF PyStrIn("id", probe) THEN uuid ELSE 0 ]

\* the body of the try of save_memory: each way it can end, with the table
\* it leaves
SaveMemoryTry(tbl, text, now, uuid) ==
    UNION {
      IF ~p.ok
      THEN {[out |-> Raised("APIError", <<Call("probe", FALSE)>>), table |-> tbl]}
      ELSE { [out |-> Raised("APIError", <<Call("probe", TRUE), Call("upsert", FALSE)>>),
              table |-> tbl],
             [out |-> Returned("saved", "Successfully saved memory to Supabase at",
                               <<>>, IsoFormat(now),
                               <<Call("probe", TRUE), Call("upsert", TRUE)>>),
              table |-> Upsert(tbl, MemoryData(text, now, p.data, uuid))] }
      : p \in ExecuteSelectIdLimit1(tbl) }

\* except Exception as e: return f"Error saving memory: {str(e)}"
SaveMemoryExcept(o) ==
    IF o.kind = "raise"
    THEN Returned("error", "Error saving memory", <<>>, <<>>, o.calls)
    ELSE o

\* save_memory(ctx, text), with the clock reading now
SaveMemoryOutcomes(tbl, text, now, uuid) ==
    {[out |-> SaveMemoryExcept(x.out), table |-> x.table] :
        x \in SaveMemoryTry(tbl, text, now, uuid)}

(***************************************************************************)
(* search_memories                                                         *)
(***************************************************************************)
\* date_start = f"{date}T00:00:00"
DateStart(date) == date \o <<"T", "0", "0", ":", "0", "0", ":", "0", "0">>

\* date_end = f"{date}T23:59:59"
DateEnd(date) == date \o <<"T", "2", "3", ":", "5", "9", ":", "5", "9">>

\* DateRange without the upper end
DateRangeNoEnd(query, date) == Gte(query, DateStart(date))

\* query.gte("timestamp", date_start).lte("timestamp", date_end)
DateRange(query, date) == Lte(Gte(query, DateStart(date)), DateEnd(date))

\* time_filter = f"{hour}:{minute}" of the parts of time.split(':')
TimeFilter(time) ==
    LET time_parts == Split(time, ":")
        hour       == time_parts[1]
        minute     == IF Len(time_parts) > 1 THEN time_parts[2] ELSE <<"0", "0">>
    IN  hour \o <<":">> \o minute

\* the test of the loop over response.data: the timestamp holds a 'T' and
\* the first five characters after it equal time_filter
TimeMatches(timestamp, time_filter) ==
    /\ Contains(timestamp, "T")
    /\ Take(Split(timestamp, "T")[2], 5) = time_filter

\* filtered_data: the records of response.data that pass, in its order
ManualFilter(data, time_filter) ==
    SelectSeq(data, LAMBDA record : TimeMatches(record.timestamp, time_filter))

\* if time: ... (the time filter; query is already restricted by the date)
TimePath(query, time, log) ==
    IF ~StrptimeHMS(time)
    THEN {Returned("error", "Invalid time format. Use HH:MM:SS.", <<>>, <<>>, log)}
    ELSE { IF response.ok
           THEN Returned("list", "", ManualFilter(response.data, TimeFilter(time)),
                         <<>>, Append(log, Call("fetch", TRUE)))
           ELSE Raised("APIError", Append(log, Call("fetch", FALSE)))
           : response \in Execute(query) }

\* FinalQuery that answers a failed read with the empty list
FinalQueryEmptyOnFailure(query, log) ==
    { IF response.ok
      THEN Returned("list", "", response.data, <<>>, Append(log, Call("final", TRUE)))
      ELSE Returned("list", "", <<>>, <<>>, Append(log, Call("final", FALSE)))
      : response \in ExecuteOrderDesc(query) }

\* response = query.order("timestamp", desc=True).execute() and its return
FinalQuery(query, log) ==
    { IF response.ok
      THEN Returned("list", "", response.data, <<>>, Append(log, Call("final", TRUE)))
      ELSE Raised("APIError", Append(log, Call("final", FALSE)))
      : response \in ExecuteOrderDesc(query) }

\* the code after the date filter
AfterDate(query, time, log) ==
    IF Truthy(time) THEN TimePath(query, time.s, log) ELSE FinalQuery(query, log)

\* DatePath whose time filter reads the base query, not the date's range
DatePathTimeOnBase(query, date, time, log) ==
    IF Truthy(date)
    THEN IF ~StrptimeYmd(date.s)
         THEN {Returned("error", "Invalid date format. Use YYYY-MM-DD.", <<>>, <<>>, log)}
         ELSE IF Truthy(time) THEN TimePath(query, time.s, log)
              ELSE FinalQuery(DateRange(query, date.s), log)
    ELSE AfterDate(query, time, log)

\* if date: ... (the date filter) and what follows it
DatePath(query, date, time, log) ==
    IF Truthy(date)
    THEN IF ~StrptimeYmd(date.s)
         THEN {Returned("error", "Invalid date format. Use YYYY-MM-DD.", <<>>, <<>>, log)}
         ELSE AfterDate(DateRange(query, date.s), time, log)
    ELSE AfterDate(query, time, log)

\* the body of the outer try of search_memories: the test of the base
\* query, then the filters
SearchMemoriesTry(tbl, date, time) ==
    LET test_responses == Execute(Eq(tbl, DEFAULT_USER_ID)) IN
    (IF \E test_response \in test_responses : ~test_response.ok
     THEN {Returned("error", "Database connection error", <<>>, <<>>,
                    <<Call("test", FALSE)>>)}
     ELSE {})
    \cup
    (IF \E test_response \in test_responses : test_response.ok
     THEN DatePath(Eq(tbl, DEFAULT_USER_ID), date, time, <<Call("test", TRUE)>>)
     ELSE {})

\* search_memories without its outer except: the exception leaves the tool
SearchMemoriesNoExcept(o) == o

\* except Exception as e: return json.dumps({"error": f"Server error ..."})
SearchMemoriesExcept(o) ==
    IF o.kind = "raise"
    THEN Returned("error", "Server error searching memories", <<>>, <<>>, o.calls)
    ELSE o

\* search_memories(ctx, date, time): each way the call can end
SearchMemoriesOutcomes(tbl, date, time) ==
    {SearchMemoriesExcept(o) : o \in SearchMemoriesTry(tbl, date, time)}

(***************************************************************************)
(* The state machine                                                       *)
(***************************************************************************)
NoRequest == [op |-> "none", text |-> "", date |-> None, time |-> None, now |-> 0]

NoReturn == [kind |-> "none", msg |-> "", data |-> <<>>, stamp |-> <<>>]

\* the rows the default user owns
UserRows(tbl) == {r \in Range(tbl) : r.user_id = DEFAULT_USER_ID}

\* the readings of the clock still to come: those after the newest
\* timestamp save_memory has written (the clock moves on between two calls)
Later(tbl) ==
    {i \in DOMAIN Instants :
        \A j \in DOMAIN Instants :
            (\E r \in UserRows(tbl) : r.timestamp = IsoInstants[j]) => j < i}

Init ==
    /\ table \in {<<>>, <<OtherUserRow>>}
    /\ req = NoRequest
    /\ calls = <<>>
    /\ ret = NoReturn
    /\ saved = {}

\* a call of the tool save_memory
SaveMemory(text, now, uuid) ==
    /\ Cardinality(UserRows(table)) < MaxSaves
    /\ now \in Later(table)
    /\ \E x \in SaveMemoryOutcomes(table, text, Instants[now], uuid) :
          /\ table' = x.table
          /\ req' = [op |-> "save", text |-> text, date |-> None, time |-> None,
                     now |-> now]
          /\ calls' = x.out.calls
          /\ ret' = [kind |-> x.out.kind, msg |-> x.out.msg, data |-> x.out.data,
                     stamp |-> x.out.stamp]
          /\ saved' = IF x.out.kind = "saved" THEN saved \cup {text} ELSE saved

\* a call of the tool search_memories
SearchMemories(date, time) ==
    /\ \E o \in SearchMemoriesOutcomes(table, date, time) :
          /\ req' = [op |-> "search", text |-> "", date |-> date, time |-> time,
                     now |-> 0]
          /\ calls' = o.calls
          /\ ret' = [kind |-> o.kind, msg |-> o.msg, data |-> o.data,
                     stamp |-> o.stamp]
    /\ UNCHANGED <<table, saved>>

Next ==
    \/ \E text \in Texts, now \in DOMAIN Instants, uuid \in UuidSpace :
          SaveMemory(text, now, uuid)
    \/ \E date \in DateInputs, time \in TimeInputs : SearchMemories(date, time)

Spec == Init /\ [][Next]_vars

(***************************************************************************)
(* Properties                                                              *)
(***************************************************************************)
IsSearch == req.op = "search"

InvalidFilterMsgs ==
    {"Invalid date format. Use YYYY-MM-DD.", "Invalid time format. Use HH:MM:SS."}

AllCallsOk == \A i \in DOMAIN calls : calls[i].ok

SomeCallFailed == \E i \in DOMAIN calls : ~calls[i].ok

\* the date filter was given and strptime takes it
DateAccepted == req.date.given /\ Truthy(req.date) /\ StrptimeYmd(req.date.s)

\* the time filter was given and strptime takes it
TimeAccepted == req.time.given /\ Truthy(req.time) /\ StrptimeHMS(req.time.s)

\* a filter string was supplied that does not parse in its format
MalformedFilter ==
    \/ req.date.given /\ (Len(req.date.s) = 0 \/ ~StrptimeYmd(req.date.s))
    \/ req.time.given /\ (Len(req.time.s) = 0 \/ ~StrptimeHMS(req.time.s))

\* the timestamp lies in [D 00:00:00, D 23:59:59] for the date D = y-m-d
InDay(timestamp, date) ==
    LET p  == Split(date, "-")
        y  == NumVal(p[1])
        m  == NumVal(p[2])
        d  == DayVal(p[3])
        ts == PgTimestamp(timestamp)
    IN  /\ TupleLeq(<<y, m, d, 0, 0, 0, 0>>, ts)
        /\ TupleLeq(ts, <<y, m, d, 23, 59, 59, 0>>)

\* the timestamp has the hour and the minute of the time h:m:s
SameHourMinute(timestamp, time) ==
    LET p  == Split(time, ":")
        ts == PgTimestamp(timestamp)
    IN  ts[4] = NumVal(p[1]) /\ ts[5] = NumVal(p[2])

\* C1: every list search_memories returns is ordered newest timestamp
\* first, whatever the filters (the time filter's path returns the rows in
\* the order of an unordered read, so this fails)
C1_NewestFirst ==
    (IsSearch /\ ret.kind = "list") =>
        \A i \in 1..(Len(ret.data) - 1) :
            TsLeq(ret.data[i + 1].timestamp, ret.data[i].timestamp)

\* C2: a search whose date or time string does not parse (the empty string
\* included), in every backend state, returns the InvalidFilter error and
\* never a list (the empty string counts as no filter, and the base query
\* is tested first, so this fails)
C2_MalformedGivesInvalidFilter ==
    (IsSearch /\ MalformedFilter) =>
        (ret.kind = "error" /\ ret.msg \in InvalidFilterMsgs)

\* C3: when search_memories returns the validation error, no backend call
\* was made during the call (the base query was executed before, so this
\* fails)
C3_ValidationBeforeBackend ==
    (IsSearch /\ ret.kind = "error" /\ ret.msg \in InvalidFilterMsgs) =>
        calls = <<>>

\* C4: search_memories(time=T) for an accepted T returns exactly the default
\* user's rows whose timestamp has T's hour and minute (T = "9:05:00" is
\* accepted and matches no row of 09:05, so this fails)
C4_TimeOnlyExact ==
    (IsSearch /\ ~req.date.given /\ TimeAccepted /\ ret.kind = "list") =>
        Range(ret.data) =
            {r \in UserRows(table) : SameHourMinute(r.timestamp, req.time.s)}

\* C5: search_memories(date=D) for an accepted D returns exactly the default
\* user's rows whose timestamp lies in [D 00:00:00, D 23:59:59], each once
C5_DateOnlyExact ==
    (IsSearch /\ DateAccepted /\ ~req.time.given /\ ret.kind = "list") =>
        /\ Range(ret.data) = {r \in UserRows(table) : InDay(r.timestamp, req.date.s)}
        /\ Len(ret.data) = Cardinality(Range(ret.data))

C5_Witness ==
    /\ IsSearch /\ DateAccepted /\ ~req.time.given /\ ret.kind = "list"
    /\ Len(req.date.s) = 8
    /\ Len(ret.data) >= 1
    /\ \E r \in UserRows(table) :
          r \notin Range(ret.data) /\ PgTimestamp(r.timestamp)[3] = 1

\* C6: on one table, the rows of search_memories(date=D, time=T) are the
\* rows common to search_memories(date=D) and search_memories(time=T)
C6_BothIsIntersection ==
    (IsSearch /\ DateAccepted /\ TimeAccepted /\ ret.kind = "list") =>
        \A a \in SearchMemoriesOutcomes(table, req.date, None) :
            \A b \in SearchMemoriesOutcomes(table, None, req.time) :
                (a.kind = "list" /\ b.kind = "list") =>
                    Range(ret.data) = Range(a.data) \cap Range(b.data)

C6_Witness ==
    /\ IsSearch /\ DateAccepted /\ TimeAccepted /\ ret.kind = "list"
    /\ Len(ret.data) = 1
    /\ \E r \in UserRows(table) :
          /\ r \notin Range(ret.data)
          /\ SameHourMinute(r.timestamp, req.time.s)

\* C7: a save_memory call that returns the confirmation has appended exactly
\* one row, whose id no other row has, and every call (save or search)
\* leaves each row that was in the table as it was
C7_SaveAddsOneRowKeepsOthers ==
    [][ /\ Len(table') >= Len(table)
        /\ \A i \in DOMAIN table : table'[i] = table[i]
        /\ (req'.op = "search") => table' = table
        /\ (req'.op = "save" /\ ret'.kind = "saved") =>
              /\ Len(table') = Len(table) + 1
              /\ table'[Len(table')].content = req'.text
              /\ \A i \in DOMAIN table : table[i].id # table'[Len(table')].id
        /\ (req'.op = "save" /\ ret'.kind # "saved") => table' = table
      ]_vars

C7_Witness ==
    /\ req.op = "save" /\ ret.kind = "saved"
    /\ Len(table) = 3
    /\ Cardinality({table[i].id : i \in DOMAIN table}) = 3
    /\ table[2].content # table[3].content

\* C8: with the backend available, search_memories without filters returns
\* exactly the default user's rows: every text saved is among them, no row
\* of another user is, and the list is empty when the user has no row
C8_NoFilterReturnsUserRows ==
    (IsSearch /\ ~req.date.given /\ ~req.time.given /\ AllCallsOk) =>
        /\ ret.kind = "list"
        /\ Range(ret.data) = {r \in Range(table) : r.user_id = DEFAULT_USER_ID}
        /\ Len(ret.data) = Cardinality(Range(ret.data))
        /\ \A text \in saved : \E i \in DOMAIN ret.data : ret.data[i].content = text
        /\ (UserRows(table) = {}) => ret.data = <<>>

C8_Witness ==
    /\ IsSearch /\ ~req.date.given /\ ~req.time.given /\ AllCallsOk
    /\ Len(ret.data) = 2
    /\ saved = Texts
    /\ OtherUserRow \in Range(table)

\* C9: save_memory and search_memories never raise: every call returns a
\* text, and the text is an error message when a backend call of it failed
C9_AlwaysReturnsText ==
    /\ ret.kind \in {"none", "saved", "list", "error"}
    /\ SomeCallFailed => ret.kind = "error"

C9_Witness ==
    /\ IsSearch /\ TimeAccepted
    /\ Len(calls) = 2 /\ calls[1].ok /\ ~calls[2].ok
    /\ ret.kind = "error"

\* C10: in search_memories a failed backend read gives an error object and
\* not a list, and a list is returned only when the test of the base query
\* and the read of the rows both succeeded
C10_FailureIsNeverAList ==
    IsSearch =>
        /\ SomeCallFailed => (ret.kind = "error" /\ ret.data = <<>>)
        /\ ret.kind = "list" =>
              /\ Len(calls) = 2
              /\ calls[1] = Call("test", TRUE)
              /\ calls[2] \in {Call("fetch", TRUE), Call("final", TRUE)}

C10_Witness ==
    /\ IsSearch /\ DateAccepted /\ ~Truthy(req.time)
    /\ calls = <<Call("test", TRUE), Call("final", FALSE)>>
    /\ ret.kind = "error"
    /\ UserRows(table) # {}

====
